---- MODULE Spec2Model ----
(***************************************************************************)
(* Hermes rate limit tester (src/Hermes.py): the request-pacing engine     *)
(* run_probe with its request executor fetch, the latency accumulator      *)
(* LatencyStats, the status tally (a Counter), and the entry paths that    *)
(* build a RunConfig and invoke run_probe.                                 *)
(*                                                                         *)
(* Time is counted in ticks, TicksPerSec ticks to the second.  Statements  *)
(* between two awaits of the driver take no time; time passes while the    *)
(* driver is suspended in asyncio.wait or asyncio.sleep.  asyncio.sleep    *)
(* returns at its deadline or later.                                       *)
(*                                                                         *)
(* Python floats are modelled as non-negative integers (a count of quanta) *)
(* that carry at most MantBits significant bits; an operation rounds its   *)
(* exact result to the nearest such value, ties to the even significand.   *)
(***************************************************************************)
EXTENDS Integers, Sequences, FiniteSets, TLC

\* ------------------------------------------------------------ bounds
MaxRps == 2
MaxDur == 2
MaxTasks == 2
MaxTime == 5
MaxAdds == 4
MantBits == 3
MaxLines == 2
MaxRuns == 2

\* ------------------------------------------------- program constants
\* one second, the pacing period of line 274, in ticks
TicksPerSec == 2
\* Python's None where a number is expected (status, min_ms, max_ms)
None == -1
\* Python's None where a string is expected (fetch's error)
NoneErr == "<None>"
\* the tally key "ERR" of line 261 (the keys of the model are integers)
ERR == 0
\* the status codes the transport answers with in the model
Statuses == {200, 429}
\* str(exc) of a transport fault: an exception may carry no text
ExcTexts == {"", "refused"}

VARIABLES
    \* run_probe's parameters
    rps, duration_s,
    \* the clock (time.perf_counter()), in ticks
    now,
    \* run_probe's locals
    start, end_time, sec_start, wake, pc, tasks, pending, done, waitMode,
    sent, status_counts, latencies, total, summary,
    \* shared with the other threads
    stop_flag, log_queue,
    \* history of the run
    launched, waves, nCancelled, returned, prevLaunch, lastLaunch,
    observed, stopInWave, onTime, overrun, finished,
    \* LatencyStats driven alone: the values added so far
    recorded,
    \* the entry paths: which one, its raw input, how it ended, the RunConfig
    path, input, cfgState, config,
    \* parse_header_lines inside RunConfig.from_fields: its argument, the
    \* line its loop is at, its local mapping, how it ended, the line its
    \* error names, the mapping it returned, the RunConfig of from_fields
    raw, lineNo, headers, parseState, errLine, parsed, fieldsConfig,
    \* the GUI: the attributes of RateLimitTesterGUI, its summary queue, the
    \* worker threads, Tk's queue of scheduled callbacks, what was displayed
    \* or exported as a summary, the runs reported as failed
    gui, summary_queue, workers, after_queue, shown, reported

runVars == <<rps, duration_s, now, start, end_time, sec_start, wake, pc, tasks,
             pending, done, waitMode, sent, status_counts, total, summary,
             stop_flag, log_queue, launched, waves, nCancelled, returned,
             prevLaunch, lastLaunch, observed, stopInWave, onTime, overrun,
             finished>>
cfgVars == <<path, input, cfgState, config>>
hdrVars == <<raw, lineNo, headers, parseState, errLine, parsed, fieldsConfig>>
guiVars == <<gui, summary_queue, workers, after_queue, shown, reported>>
vars == <<runVars, latencies, recorded, cfgVars, hdrVars, guiVars>>

\* ------------------------------------------------------------ floats
RECURSIVE BitLen(_)
BitLen(n) == IF n = 0 THEN 0 ELSE 1 + BitLen(n \div 2)

RECURSIVE Pow2(_)
Pow2(k) == IF k <= 0 THEN 1 ELSE 2 * Pow2(k - 1)

\* n / c rounded to MantBits significant bits, ties to even.  The quotient's
\* integer part must have at least MantBits bits, or be exact.
FlDiv(n, c) ==
    LET m == n \div c
        e == BitLen(m) - MantBits
        q == Pow2(e)
        lower == (m \div q) * q
        twice == 2 * n - 2 * lower * c
    IN  IF e < 0 THEN m
        ELSE IF twice < q * c THEN lower
        ELSE IF twice > q * c THEN lower + q
        ELSE IF (lower \div q) % 2 = 0 THEN lower ELSE lower + q

Fl(n) == FlDiv(n, 1)

FlAdd(a, b) == Fl(a + b)

\* ------------------------------------------------------ LatencyStats
EmptyStats == [count |-> 0, total_ms |-> 0, min_ms |-> None, max_ms |-> None]

\* an add that seeds min_ms with the first value and never lowers it
LatAddSeedOnly(l, x) ==
    [count    |-> l.count + 1,
     total_ms |-> FlAdd(l.total_ms, x),
     min_ms   |-> IF l.min_ms = None THEN x ELSE l.min_ms,
     max_ms   |-> IF l.max_ms = None \/ x > l.max_ms THEN x ELSE l.max_ms]

LatAdd(l, x) ==
    [count    |-> l.count + 1,
     total_ms |-> FlAdd(l.total_ms, x),
     min_ms   |-> IF l.min_ms = None \/ x < l.min_ms THEN x ELSE l.min_ms,
     max_ms   |-> IF l.max_ms = None \/ x > l.max_ms THEN x ELSE l.max_ms]

\* a mean that tests the sum instead of the count ("if not self.total_ms")
MeanOfSum(l) == IF l.total_ms = 0 THEN None ELSE FlDiv(l.total_ms, l.count)

Mean(l) == IF l.count = 0 THEN None ELSE FlDiv(l.total_ms, l.count)

\* ------------------------------------------------------------ Counter
EmptyCounter == [k \in {} |-> 0]

CounterGet(c, k) == IF k \in DOMAIN c THEN c[k] ELSE 0

\* a tally that stores 1 instead of adding 1
CounterIncOverwrite(c, k) == [x \in DOMAIN c \cup {k} |-> IF x = k THEN 1 ELSE c[x]]

CounterInc(c, k) ==
    [x \in DOMAIN c \cup {k} |-> IF x = k THEN CounterGet(c, k) + 1 ELSE c[x]]

RECURSIVE SumOver(_, _)
SumOver(c, S) ==
    IF S = {} THEN 0
    ELSE LET k == CHOOSE x \in S : TRUE IN c[k] + SumOver(c, S \ {k})

CounterTotal(c) == SumOver(c, DOMAIN c)

\* ------------------------------------------------------------- fetch
MsPerTick == 1000 \div TicksPerSec

\* dt = (time.perf_counter() - t0) * 1000.0
LatencyMs(ticks) == Fl(ticks * MsPerTick)

\* what the transport does with one request: it answers with a status code,
\* or it fails with an exception (refused, timed out, protocol error)
TransportOutcomes ==
    [kind : {"response"}, status : Statuses, text : {""}]
        \cup [kind : {"fault"}, status : {None}, text : ExcTexts]

\* a fetch that reports a 4xx/5xx response as an error
FetchErrOn4xx(o, ticks) ==
    IF o.kind = "response"
    THEN <<o.status, LatencyMs(ticks),
           IF o.status >= 400 THEN "HTTP error" ELSE NoneErr>>
    ELSE <<None, LatencyMs(ticks), o.text>>

\* the tuple fetch returns: (status, latency_ms, error)
Fetch(o, ticks) ==
    IF o.kind = "response"
    THEN <<o.status, LatencyMs(ticks), NoneErr>>
    ELSE <<None, LatencyMs(ticks), o.text>>

\* the key under which a transport result is to be counted
OutcomeKey(o) == IF o.kind = "response" THEN o.status ELSE ERR

NoResult == <<None, None, NoneErr>>

NewTask(w, t) == [st |-> "running", wave |-> w, t0 |-> t, creq |-> FALSE,
                  res |-> NoResult]

\* a fetch without its exception handler: a transport fault leaves the task
\* with an exception
TaskEndRaises(task, o, t) ==
    IF task.creq THEN [task EXCEPT !.st = "cancelled"]
    ELSE IF o.kind = "fault" THEN [task EXCEPT !.st = "raised"]
    ELSE [task EXCEPT !.st = "done", !.res = Fetch(o, t - task.t0)]

\* The task of one fetch when its coroutine ends at time t with transport
\* outcome o.  A cancellation requested with task.cancel() is thrown into the
\* coroutine as CancelledError, which "except Exception" does not catch: the
\* task ends cancelled and returns nothing.
TaskEnd(task, o, t) ==
    IF task.creq
    THEN [task EXCEPT !.st = "cancelled"]
    ELSE [task EXCEPT !.st = "done", !.res = Fetch(o, t - task.t0)]

\* task.cancel(): no effect on a task that is done
TaskCancel(task) ==
    IF task.st = "running" THEN [task EXCEPT !.creq = TRUE] ELSE task

\* timeout_s of the runs of the model, in ticks (1.5 s): the transport ends a
\* request that has run this long with a fault
RequestTimeout == TicksPerSec + 1

TimedOut(task, t) == task.st = "running" /\ t - task.t0 >= RequestTimeout

\* ------------------------------------------------------------ driver
\* a wave loop that ignores the stop flag
LoopCondNoStop == now < end_time

\* a wave loop that still runs at the end time
LoopCondInclusive == now <= end_time /\ ~stop_flag

\* a wave loop that gives up after a transport fault
LoopCondStopOnErr ==
    now < end_time /\ ~stop_flag /\ CounterGet(status_counts, ERR) = 0

\* line 225
LoopCond == now < end_time /\ ~stop_flag

\* an inner loop that gives the wave up once the stop flag is set
InnerLoopCondStop == pending # {} /\ ~stop_flag

\* an inner loop with its condition negated: the wave is never awaited
InnerLoopCondNeg == pending = {}

\* an inner loop that tests the list of the wave's tasks ("while tasks:")
InnerLoopCondTasks == rps > 0

\* line 235
InnerLoopCond == pending # {}

\* a pacing period one tick short of a second
ToSleepShort == (TicksPerSec - 1) - (now - sec_start)

\* lines 273-274, in ticks
ToSleep == TicksPerSec - (now - sec_start)

\* line 275
SleepCond == ToSleep > 0 /\ ~stop_flag

\* a tally that counts 4xx/5xx responses as failures
StatusKeyFold(status) == IF status = None \/ status >= 400 THEN ERR ELSE status

\* lines 259-263
StatusKey(status) == IF status = None THEN ERR ELSE status

\* lines 248-253: finished.result() of a task that is not cancelled
TaskResult(task) ==
    IF task.st = "done" THEN task.res ELSE <<None, 0, "Exception: raised">>

\* a log record formatted before the sent counter is incremented
LogLineStale(seq, key, lat, error) ==
    [kind |-> "REQ", seq |-> seq - 1, status |-> key, lat |-> lat,
     err |-> IF error = NoneErr THEN "" ELSE error]

\* lines 266-271: the record put on the log queue for one request
\* (err_txt is (error or "").strip())
LogLine(seq, key, lat, error) ==
    [kind |-> "REQ", seq |-> seq, status |-> key, lat |-> lat,
     err |-> IF error = NoneErr THEN "" ELSE error]

\* line 279
FinalLine(n, elapsed) ==
    [kind |-> "END", seq |-> n, status |-> None, lat |-> elapsed, err |-> ""]

\* The place of task f, in order of completion, among the tasks of S that
\* ended with a result: 1 + the number of those that ended before it.  The
\* tasks of S belong to one wave and started together, so the one with the
\* smaller latency ended first.
RankIn(f, S) ==
    1 + Cardinality({g \in S \ {f} :
                        /\ tasks[g].st = "done"
                        /\ tasks[g].res[2] < TaskResult(tasks[f])[2]})

\* the task taken last by the loop "for finished in done" with its place
\* among those the loop had not yet taken; NoFinished outside the loop
NoFinished == [id |-> 0, rank |-> 0]

Restrict(f, S) == [x \in S |-> f[x]]

InFlight == {i \in DOMAIN tasks : tasks[i].st = "running"}

histVars == <<launched, waves, nCancelled, returned, prevLaunch, lastLaunch,
              observed, stopInWave, onTime, overrun, finished>>

\* line 225: the loop condition is evaluated
LoopCheck ==
    /\ pc = "loop"
    /\ pc' = IF LoopCond THEN "launch" ELSE "final"
    /\ observed' = (observed \/ stop_flag)
    /\ onTime' = (onTime /\ now < start + (waves + 1) * TicksPerSec)
    /\ UNCHANGED <<rps, duration_s, now, start, end_time, sec_start, wake,
                   tasks, pending, done, waitMode, sent, status_counts,
                   latencies, summary, stop_flag, log_queue, launched, waves,
                   nCancelled, returned, prevLaunch, lastLaunch, stopInWave,
                   overrun,
                   total, finished, recorded,
                   cfgVars, hdrVars, guiVars>>

\* lines 226-233: one wave of rps tasks is created
Launch ==
    /\ pc = "launch"
    /\ sec_start' = now
    /\ LET new == (launched + 1) .. (launched + rps)
       IN  /\ tasks' = [i \in DOMAIN tasks \cup new |->
                           IF i \in new THEN NewTask(waves + 1, now)
                           ELSE tasks[i]]
           /\ pending' = new
    /\ launched' = launched + rps
    /\ waves' = waves + 1
    /\ prevLaunch' = lastLaunch
    /\ lastLaunch' = now
    /\ pc' = "poll"
    /\ UNCHANGED <<rps, duration_s, now, start, end_time, wake, done, waitMode,
                   sent, status_counts, latencies, summary, stop_flag,
                   log_queue, nCancelled, returned, observed, stopInWave,
                   onTime, overrun,
                   total, finished, recorded,
                   cfgVars, hdrVars, guiVars>>

\* a stop check that also discards the statistics gathered so far
PollRollsBack ==
    /\ pc = "poll"
    /\ IF ~InnerLoopCond
       THEN /\ pc' = "pace"
            /\ UNCHANGED <<tasks, waitMode, observed, sent, status_counts,
                           latencies>>
       ELSE /\ pc' = "awaiting"
            /\ IF stop_flag
               THEN /\ tasks' = [i \in DOMAIN tasks |->
                                    IF i \in pending THEN TaskCancel(tasks[i])
                                    ELSE tasks[i]]
                    /\ waitMode' = "ALL_COMPLETED"
                    /\ observed' = TRUE
                    /\ sent' = 0
                    /\ status_counts' = EmptyCounter
                    /\ latencies' = EmptyStats
               ELSE /\ waitMode' = "FIRST_COMPLETED"
                    /\ UNCHANGED <<tasks, observed, sent, status_counts,
                                   latencies>>
    /\ UNCHANGED <<rps, duration_s, now, start, end_time, sec_start, wake,
                   pending, done, summary,
                   stop_flag, log_queue, launched, waves, nCancelled, returned,
                   prevLaunch, lastLaunch, stopInWave, onTime, overrun,
                   total, finished, recorded,
                   cfgVars, hdrVars, guiVars>>

\* lines 235-245: the inner loop's condition, the stop check, entering
\* asyncio.wait
Poll ==
    /\ pc = "poll"
    /\ IF ~InnerLoopCond
       THEN /\ pc' = "pace"
            /\ UNCHANGED <<tasks, waitMode, observed>>
       ELSE /\ pc' = "awaiting"
            /\ IF stop_flag
               THEN /\ tasks' = [i \in DOMAIN tasks |->
                                    IF i \in pending THEN TaskCancel(tasks[i])
                                    ELSE tasks[i]]
                    /\ waitMode' = "ALL_COMPLETED"
                    /\ observed' = TRUE
               ELSE /\ waitMode' = "FIRST_COMPLETED"
                    /\ UNCHANGED <<tasks, observed>>
    /\ UNCHANGED <<rps, duration_s, now, start, end_time, sec_start, wake,
                   pending, done, sent, status_counts, latencies, summary,
                   stop_flag, log_queue, launched, waves, nCancelled, returned,
                   prevLaunch, lastLaunch, stopInWave, onTime, overrun,
                   total, finished, recorded,
                   cfgVars, hdrVars, guiVars>>

\* lines 239-245: asyncio.wait returns, on a completion or on its 50 ms
\* timeout, with every pending task that has ended
WaitReturn ==
    /\ pc = "awaiting"
    /\ LET fin == {i \in pending : tasks[i].st # "running"}
       IN  /\ done' = fin
           /\ pending' = pending \ fin
           /\ pc' = IF fin = {} THEN "poll" ELSE "process"
    /\ UNCHANGED <<rps, duration_s, now, start, end_time, sec_start, wake,
                   tasks, waitMode, sent, status_counts, latencies, summary,
                   stop_flag, log_queue, histVars,
                   total, recorded,
                   cfgVars, hdrVars, guiVars>>

\* a loop that catches the CancelledError of a cancelled task like any
\* other exception and records an error outcome for it
ProcessOneCountsCancelled ==
    /\ pc = "process"
    /\ \E f \in done :
        /\ done' = done \ {f}
        /\ tasks' = Restrict(tasks, DOMAIN tasks \ {f})
        /\ pc' = IF done' = {} THEN "poll" ELSE "process"
        /\ LET r == IF tasks[f].st = "cancelled"
                    THEN <<None, 0, "CancelledError: ">>
                    ELSE TaskResult(tasks[f])
               key == StatusKey(r[1])
           IN  /\ sent' = sent + 1
               /\ latencies' = IF r[2] # None
                               THEN LatAdd(latencies, r[2])
                               ELSE latencies
               /\ status_counts' = CounterInc(status_counts, key)
               /\ log_queue' = Append(log_queue,
                                      LogLine(sent', key, r[2], r[3]))
               /\ finished' = IF done' = {} THEN NoFinished
                              ELSE [id |-> f, rank |-> RankIn(f, done)]
               /\ nCancelled' = IF tasks[f].st = "cancelled"
                                THEN nCancelled + 1 ELSE nCancelled
    /\ UNCHANGED <<rps, duration_s, now, start, end_time, sec_start, wake,
                   pending, waitMode, summary, stop_flag, launched, waves,
                   returned, prevLaunch, lastLaunch, observed, stopInWave,
                   onTime, overrun,
                   total, recorded,
                   cfgVars, hdrVars, guiVars>>

\* lines 247-271: one iteration of "for finished in done" (a set: any order)
ProcessOne ==
    /\ pc = "process"
    /\ \E f \in done :
        /\ done' = done \ {f}
        /\ tasks' = Restrict(tasks, DOMAIN tasks \ {f})
        /\ pc' = IF done' = {} THEN "poll" ELSE "process"
        /\ IF tasks[f].st = "cancelled"
           THEN /\ nCancelled' = nCancelled + 1
                /\ finished' = IF done' = {} THEN NoFinished ELSE finished
                /\ UNCHANGED <<sent, latencies, status_counts, log_queue>>
           ELSE LET r == TaskResult(tasks[f])
                    key == StatusKey(r[1])
                IN  /\ sent' = sent + 1
                    /\ latencies' = IF r[2] # None
                                    THEN LatAdd(latencies, r[2])
                                    ELSE latencies
                    /\ status_counts' = CounterInc(status_counts, key)
                    /\ log_queue' = Append(log_queue,
                                           LogLine(sent', key, r[2], r[3]))
                    /\ finished' = IF done' = {} THEN NoFinished
                                   ELSE [id |-> f, rank |-> RankIn(f, done)]
                    /\ UNCHANGED nCancelled
    /\ UNCHANGED <<rps, duration_s, now, start, end_time, sec_start, wake,
                   pending, waitMode, summary, stop_flag, launched, waves,
                   returned, prevLaunch, lastLaunch, observed, stopInWave,
                   onTime, overrun,
                   total, recorded,
                   cfgVars, hdrVars, guiVars>>

\* lines 273-276: the pacing decision
Pace ==
    /\ pc = "pace"
    /\ IF SleepCond
       THEN /\ pc' = "sleeping"
            /\ wake' = now + ToSleep
       ELSE /\ pc' = "loop"
            /\ UNCHANGED wake
    /\ observed' = (observed \/ (ToSleep > 0 /\ stop_flag))
    /\ overrun' = (overrun \/ ToSleep < 0)
    /\ UNCHANGED <<rps, duration_s, now, start, end_time, sec_start, tasks,
                   pending, done, waitMode, sent, status_counts, latencies,
                   summary, stop_flag, log_queue, launched, waves, nCancelled,
                   returned, prevLaunch, lastLaunch, stopInWave, onTime,
                   total, finished, recorded,
                   cfgVars, hdrVars, guiVars>>

\* line 276: asyncio.sleep returns, at its deadline or later
Wake ==
    /\ pc = "sleeping"
    /\ now >= wake
    /\ pc' = "loop"
    /\ UNCHANGED <<rps, duration_s, now, start, end_time, sec_start, wake,
                   tasks, pending, done, waitMode, sent, status_counts,
                   latencies, summary, stop_flag, log_queue, histVars,
                   total, recorded,
                   cfgVars, hdrVars, guiVars>>

\* a run that writes its final record only if it recorded a request
FinalUnlessEmpty ==
    /\ pc = "final"
    /\ total' = now - start
    /\ log_queue' = IF sent > 0
                    THEN Append(log_queue, FinalLine(sent, total'))
                    ELSE log_queue
    /\ pc' = "closing"
    /\ UNCHANGED <<rps, duration_s, now, start, end_time, sec_start, wake,
                   tasks, pending, done, waitMode, sent, status_counts,
                   latencies, summary, stop_flag, histVars, recorded,
                   cfgVars, hdrVars, guiVars>>

\* lines 278-279: the elapsed time and the final log record; the driver
\* then leaves the "async with" block, which awaits the session's close
Final ==
    /\ pc = "final"
    /\ total' = now - start
    /\ log_queue' = Append(log_queue, FinalLine(sent, total'))
    /\ pc' = "closing"
    /\ UNCHANGED <<rps, duration_s, now, start, end_time, sec_start, wake,
                   tasks, pending, done, waitMode, sent, status_counts,
                   latencies, summary, stop_flag, histVars, recorded,
                   cfgVars, hdrVars, guiVars>>

\* a RunSummary that reports the requests launched as sent
ReturnLaunched ==
    /\ pc = "closing"
    /\ summary' = [total_sent |-> launched, status_counts |-> status_counts,
                   elapsed_s |-> total, latencies |-> latencies]
    /\ pc' = "done"
    /\ UNCHANGED <<rps, duration_s, now, start, end_time, sec_start, wake,
                   tasks, pending, done, waitMode, sent, status_counts,
                   latencies, total, stop_flag, log_queue, histVars, recorded,
                   cfgVars, hdrVars, guiVars>>

\* lines 281-287: the session is closed, the RunSummary is built and returned
Return ==
    /\ pc = "closing"
    /\ summary' = [total_sent |-> sent, status_counts |-> status_counts,
                   elapsed_s |-> total, latencies |-> latencies]
    /\ pc' = "done"
    /\ UNCHANGED <<rps, duration_s, now, start, end_time, sec_start, wake,
                   tasks, pending, done, waitMode, sent, status_counts,
                   latencies, total, stop_flag, log_queue, histVars, recorded,
                   cfgVars, hdrVars, guiVars>>

\* a fetch that adds its own result to the tally when it ends
TaskResolveTallies ==
    /\ pc \in {"awaiting", "sleeping"}
    /\ \E i \in InFlight : \E o \in TransportOutcomes :
        /\ TimedOut(tasks[i], now) => o.kind = "fault" /\ o.text = ""
        /\ tasks' = [tasks EXCEPT ![i] = TaskEnd(tasks[i], o, now)]
        /\ returned' = IF tasks'[i].st = "done"
                       THEN CounterInc(returned, OutcomeKey(o))
                       ELSE returned
        /\ status_counts' = IF tasks'[i].st = "done"
                            THEN CounterInc(status_counts, OutcomeKey(o))
                            ELSE status_counts
    /\ UNCHANGED <<rps, duration_s, now, start, end_time, sec_start, wake, pc,
                   pending, done, waitMode, sent, latencies,
                   summary, stop_flag, log_queue, launched, waves, nCancelled,
                   prevLaunch, lastLaunch, observed, stopInWave, onTime,
                   overrun,
                   total, finished, recorded,
                   cfgVars, hdrVars, guiVars>>

\* the event loop runs one fetch to its end while the driver is suspended
TaskResolve ==
    /\ pc \in {"awaiting", "sleeping"}
    /\ \E i \in InFlight : \E o \in TransportOutcomes :
        /\ TimedOut(tasks[i], now) => o.kind = "fault" /\ o.text = ""
        /\ tasks' = [tasks EXCEPT ![i] = TaskEnd(tasks[i], o, now)]
        /\ returned' = IF tasks'[i].st = "done"
                       THEN CounterInc(returned, OutcomeKey(o))
                       ELSE returned
    /\ UNCHANGED <<rps, duration_s, now, start, end_time, sec_start, wake, pc,
                   pending, done, waitMode, sent, status_counts, latencies,
                   summary, stop_flag, log_queue, launched, waves, nCancelled,
                   prevLaunch, lastLaunch, observed, stopInWave, onTime,
                   overrun,
                   total, finished, recorded,
                   cfgVars, hdrVars, guiVars>>

\* time passes while the driver is suspended
Tick ==
    /\ pc \in {"awaiting", "sleeping"}
    /\ now < MaxTime
    /\ \A i \in DOMAIN tasks : ~TimedOut(tasks[i], now)
    /\ now' = now + 1
    /\ UNCHANGED <<rps, duration_s, start, end_time, sec_start, wake, pc,
                   tasks, pending, done, waitMode, sent, status_counts,
                   latencies, summary, stop_flag, log_queue, histVars,
                   total, recorded,
                   cfgVars, hdrVars, guiVars>>

\* another thread sets the stop flag (on_stop, on_close)
SetStop ==
    /\ pc \notin {"idle", "done"}
    /\ ~stop_flag
    /\ stop_flag' = TRUE
    /\ stopInWave' = (pc \in {"poll", "awaiting", "process", "pace", "sleeping"})
    /\ UNCHANGED <<rps, duration_s, now, start, end_time, sec_start, wake, pc,
                   tasks, pending, done, waitMode, sent, status_counts,
                   latencies, summary, log_queue, launched, waves,
                   nCancelled, returned, prevLaunch, lastLaunch, observed,
                   onTime, overrun,
                   total, finished, recorded,
                   cfgVars, hdrVars, guiVars>>

\* parse_header_lines has not been called.  A value that may be absent is a
\* sequence of length 0 or 1: no mapping returned differs from the empty
\* mapping returned.
NoHeaders == [k \in {} |-> <<>>]
NoLine == <<"<None>">>
IdleHdr ==
    /\ raw = <<>> /\ lineNo = 0 /\ headers = NoHeaders
    /\ parseState = "idle" /\ errLine = NoLine
    /\ parsed = <<>> /\ fieldsConfig = <<>>

\* a RunSummary as the GUI sees it: the run that produced it and that run's
\* configuration; run 0 stands for None
NoRunSummary == [run |-> 0, config |-> "none"]

\* RateLimitTesterGUI.__init__, lines 325-331 and 387-415, with the
\* reset_idle() of line 488.  The label texts are "idle", "running", "stop
\* requested" and "completed" in the model.
NewGui ==
    [btn_start |-> "normal", btn_stop |-> "disabled",
     btn_show_summary |-> "disabled", btn_export_log |-> "disabled",
     lbl_status |-> "idle", stop_flag |-> FALSE,
     last_summary |-> NoRunSummary, current_config |-> "none"]

\* the GUI after construction, no run started
IdleGui ==
    /\ gui = NewGui /\ summary_queue = <<>>
    /\ workers = <<>> /\ after_queue = <<>>
    /\ shown = {} /\ reported = {}

NoSummary == [total_sent |-> None, status_counts |-> EmptyCounter,
              elapsed_s |-> None, latencies |-> EmptyStats]

NoConfig == [url |-> "", rps |-> 0, duration_s |-> 0, timeout_s |-> 0]
NoInput == [url |-> "", rps |-> 0, duration |-> 0, timeout |-> 0]

\* a run whose end time lies one second past the duration
InitRunLateEnd(r, d) ==
    /\ rps = r /\ duration_s = d
    /\ now = 0 /\ start = 0 /\ end_time = (d + 1) * TicksPerSec
    /\ sec_start = 0 /\ wake = 0
    /\ tasks = [i \in {} |-> NewTask(0, 0)]
    /\ pending = {} /\ done = {} /\ waitMode = "FIRST_COMPLETED"
    /\ sent = 0 /\ status_counts = EmptyCounter
    /\ total = 0 /\ summary = NoSummary
    /\ stop_flag = FALSE /\ log_queue = <<>>
    /\ launched = 0 /\ waves = 0 /\ nCancelled = 0 /\ returned = EmptyCounter
    /\ prevLaunch = None /\ lastLaunch = None
    /\ observed = FALSE /\ stopInWave = FALSE /\ onTime = TRUE
    /\ overrun = FALSE
    /\ finished = NoFinished

\* run_probe has run lines 214-223 of a call with a well-formed configuration
InitRun(r, d) ==
    /\ rps = r /\ duration_s = d
    /\ now = 0 /\ start = 0 /\ end_time = d * TicksPerSec
    /\ sec_start = 0 /\ wake = 0
    /\ tasks = [i \in {} |-> NewTask(0, 0)]
    /\ pending = {} /\ done = {} /\ waitMode = "FIRST_COMPLETED"
    /\ sent = 0 /\ status_counts = EmptyCounter
    /\ total = 0 /\ summary = NoSummary
    /\ stop_flag = FALSE /\ log_queue = <<>>
    /\ launched = 0 /\ waves = 0 /\ nCancelled = 0 /\ returned = EmptyCounter
    /\ prevLaunch = None /\ lastLaunch = None
    /\ observed = FALSE /\ stopInWave = FALSE /\ onTime = TRUE
    /\ overrun = FALSE
    /\ finished = NoFinished

Init ==
    /\ \E r \in 1 .. MaxRps : \E d \in 1 .. MaxDur : r * d <= MaxTasks /\ InitRun(r, d)
    /\ pc = "loop"
    /\ latencies = EmptyStats
    /\ recorded = <<>>
    /\ path = "none" /\ input = NoInput /\ cfgState = "none" /\ config = NoConfig
    /\ IdleHdr /\ IdleGui

Next ==
    \/ LoopCheck
    \/ Launch
    \/ Poll
    \/ WaitReturn
    \/ ProcessOne
    \/ Pace
    \/ Wake
    \/ Final
    \/ Return
    \/ TaskResolve
    \/ Tick
    \/ SetStop

Spec == Init /\ [][Next]_vars

\* ------------------------------------------------- a run under fairness
\* the steps of the run_probe coroutine
Driver ==
    \/ LoopCheck
    \/ Launch
    \/ Poll
    \/ WaitReturn
    \/ ProcessOne
    \/ Pace
    \/ Wake
    \/ Final
    \/ Return

\* runs whose last pacing sleep ends within the clock of the model
InitLive == Init /\ end_time + TicksPerSec - 1 <= MaxTime

\* The event loop keeps running the coroutine whenever it can take a step,
\* the clock keeps advancing while the coroutine is suspended, and every
\* request handed to the transport resolves: the driver suspends in
\* asyncio.wait again and again, so a fetch that can end again and again
\* does end.  Nothing obliges another thread to set the stop flag.
Fairness ==
    /\ WF_vars(Driver)
    /\ WF_vars(Tick)
    /\ SF_vars(TaskResolve)

SpecLive == InitLive /\ [][Next]_vars /\ Fairness

\* ----------------------------------------------- LatencyStats alone
\* latencies a run can hand to add: floats of MantBits significant bits
LatVals ==
    {m * Pow2(MantBits) : m \in Pow2(MantBits - 1) .. (Pow2(MantBits) - 1)}

IdleRun ==
    /\ InitRun(1, 1)
    /\ pc = "idle"

InitLat ==
    /\ IdleRun
    /\ latencies = EmptyStats
    /\ recorded = <<>>
    /\ path = "none" /\ input = NoInput /\ cfgState = "none" /\ config = NoConfig
    /\ IdleHdr /\ IdleGui

\* LatencyStats.add(x)
AddLatency ==
    /\ Len(recorded) < MaxAdds
    /\ \E x \in LatVals :
        /\ latencies' = LatAdd(latencies, x)
        /\ recorded' = Append(recorded, x)
    /\ UNCHANGED <<runVars, cfgVars, hdrVars, guiVars>>

NextLat == AddLatency

SpecLat == InitLat /\ [][NextLat]_vars

\* -------------------------------------------------------- entry paths
\* texts a URL field or option can hold: empty, blank, a URL
Urls == {"", " ", "http://h"}
\* numbers an rps, duration or timeout field or option can hold
CfgNums == {-1, 0, 1}

\* str.strip()
Strip(u) == IF u = " " THEN "" ELSE u

\* Python's "a or b" on texts and on numbers
OrStr(a, b) == IF a # "" THEN a ELSE b
OrNum(a, b) == IF a # 0 THEN a ELSE b

\* RunConfig.from_fields: the fields are stored as given
FromFields(url, r, d, t) ==
    [url |-> url, rps |-> r, duration_s |-> d, timeout_s |-> t]

\* RunConfig.from_dict
FromDict(data) == FromFields(Strip(data.url), data.rps, data.duration,
                             data.timeout)

\* collect_config, line 545
GuiRejects(url, r, d, t) == url = "" \/ r <= 0 \/ d <= 0 \/ t <= 0

\* run_headless, line 962
HeadlessRejects(url) == url = ""

Inputs == [url : Urls, rps : CfgNums, duration : CfgNums, timeout : CfgNums]

\* the defaults build_parser gives --rps, --duration and --timeout
DefaultRps == 5
DefaultDuration == 30
DefaultTimeout == 10

\* A command line: an option that takes a number is absent (<<>>) or given
\* with a value (<<v>>); for --url the empty text stands for an absent
\* option as well (None and "" are both false, and neither is stripped).
Absent == <<>>
OptNums == {Absent} \cup {<<v>> : v \in CfgNums}
Argvs == [url : Urls, rps : OptNums, duration : OptNums, timeout : OptNums]
NoArgv == [url |-> "", rps |-> Absent, duration |-> Absent, timeout |-> Absent]

\* parse_args: an absent option gets its default
OptValue(opt, default) == IF opt = Absent THEN default ELSE opt[1]

ParseArgs(av) ==
    [url |-> av.url,
     rps |-> OptValue(av.rps, DefaultRps),
     duration |-> OptValue(av.duration, DefaultDuration),
     timeout |-> OptValue(av.timeout, DefaultTimeout)]

\* The GUI path starts from the form's fields; the headless paths start
\* from a command line, parsed into args, and the preset path has a preset
\* file besides.  (--method, with its default "GET", is treated by
\* run_headless like --rps; the model leaves the method out.)
InitCfg ==
    /\ IdleRun
    /\ latencies = EmptyStats
    /\ recorded = <<>>
    /\ \/ /\ path = "gui"
          /\ \E f \in Inputs :
                input = [argv |-> NoArgv, args |-> f, preset |-> NoInput]
       \/ /\ path = "headless"
          /\ \E av \in Argvs :
                input = [argv |-> av, args |-> ParseArgs(av),
                         preset |-> NoInput]
       \/ /\ path = "preset"
          /\ \E av \in Argvs : \E p \in Inputs :
                input = [argv |-> av, args |-> ParseArgs(av), preset |-> p]
    /\ cfgState = "input"
    /\ config = NoConfig
    /\ IdleHdr /\ IdleGui

\* the GUI: on_start with collect_config, then the worker calls run_probe
OnStart ==
    /\ path = "gui" /\ cfgState = "input"
    /\ LET a == input.args
           url == Strip(a.url)
       IN  IF GuiRejects(url, a.rps, a.duration, a.timeout)
           THEN /\ cfgState' = "error"
                /\ UNCHANGED config
           ELSE /\ cfgState' = "invoked"
                /\ config' = FromFields(url, a.rps, a.duration, a.timeout)
    /\ UNCHANGED <<runVars, latencies, recorded, path, input, hdrVars, guiVars>>

\* run_headless without --preset, then run_probe
RunHeadless ==
    /\ path = "headless" /\ cfgState = "input"
    /\ LET a == input.args
       IN  IF HeadlessRejects(a.url)
           THEN /\ cfgState' = "error"
                /\ UNCHANGED config
           ELSE /\ cfgState' = "invoked"
                /\ config' = FromFields(Strip(a.url), a.rps, a.duration,
                                        a.timeout)
    /\ UNCHANGED <<runVars, latencies, recorded, path, input, hdrVars, guiVars>>

\* run_headless with --preset, then run_probe
RunHeadlessPreset ==
    /\ path = "preset" /\ cfgState = "input"
    /\ LET a == input.args
           preset == FromDict(input.preset)
           url == OrStr(a.url, preset.url)
           r == OrNum(a.rps, preset.rps)
           d == OrNum(a.duration, preset.duration_s)
           t == OrNum(a.timeout, preset.timeout_s)
       IN  IF HeadlessRejects(url)
           THEN /\ cfgState' = "error"
                /\ UNCHANGED config
           ELSE /\ cfgState' = "invoked"
                /\ config' = FromFields(Strip(url), r, d, t)
    /\ UNCHANGED <<runVars, latencies, recorded, path, input, hdrVars, guiVars>>

NextCfg ==
    \/ OnStart
    \/ RunHeadless
    \/ RunHeadlessPreset

SpecCfg == InitCfg /\ [][NextCfg]_vars

\* ------------------------------------------------ parse_header_lines
\* A line is a sequence of characters and a text is the sequence of its
\* lines (raw.splitlines()).  The lines of the model: blanks, a name, a
\* separator with or without blanks around it, a value that may hold a colon.
Pads == {<<>>, <<" ">>}
NameTexts == {<<>>, <<"a">>, <<"A">>}
SepTexts == {<<>>, <<":">>, <<" ", ":", " ">>}
ValueTexts == {<<>>, <<"1">>, <<"2", " ">>, <<"1", ":", "2">>}

HeaderLines ==
    {p \o n \o c \o v :
        p \in Pads, n \in NameTexts, c \in SepTexts, v \in ValueTexts}

HeaderTexts == UNION {[1 .. n -> HeaderLines] : n \in 0 .. MaxLines}

\* str.strip()
RECURSIVE LStrip(_)
LStrip(t) == IF t # <<>> /\ Head(t) = " " THEN LStrip(Tail(t)) ELSE t

RECURSIVE RStrip(_)
RStrip(t) ==
    IF t # <<>> /\ t[Len(t)] = " " THEN RStrip(SubSeq(t, 1, Len(t) - 1))
    ELSE t

StripText(t) == RStrip(LStrip(t))

\* ":" in striped
HasColon(t) == \E i \in 1 .. Len(t) : t[i] = ":"

\* striped.split(":", 1) of a text that holds a colon
RECURSIVE BeforeColon(_)
BeforeColon(t) ==
    IF Head(t) = ":" THEN <<>> ELSE <<Head(t)>> \o BeforeColon(Tail(t))

RECURSIVE AfterColon(_)
AfterColon(t) == IF Head(t) = ":" THEN Tail(t) ELSE AfterColon(Tail(t))

\* a parser without the test for an empty name
LineErrorNoNameTest(striped) ==
    IF ~HasColon(striped) THEN "format" ELSE "none"

\* lines 167-168 and 172-173: the error a non-blank stripped line raises
LineError(striped) ==
    IF ~HasColon(striped) THEN "format"
    ELSE IF StripText(BeforeColon(striped)) = <<>> THEN "name"
    ELSE "none"

\* a mapping that keeps the first value of a name (headers.setdefault)
SetHeaderFirst(h, name, value) ==
    [k \in DOMAIN h \cup {name} |-> IF k \in DOMAIN h THEN h[k] ELSE value]

\* line 174: headers[name] = value
SetHeader(h, name, value) ==
    [k \in DOMAIN h \cup {name} |-> IF k = name THEN value ELSE h[k]]

\* RunConfig.from_fields has called parse_header_lines(headers_text)
InitHdr ==
    /\ IdleRun
    /\ latencies = EmptyStats
    /\ recorded = <<>>
    /\ path = "none" /\ input = NoInput /\ cfgState = "none" /\ config = NoConfig
    /\ IdleGui
    /\ raw \in HeaderTexts
    /\ lineNo = 1 /\ headers = NoHeaders
    /\ parseState = "parsing" /\ errLine = NoLine
    /\ parsed = <<>> /\ fieldsConfig = <<>>

\* lines 164-174: one iteration of the loop over the lines.  A ValueError
\* names the line as given and leaves parse_header_lines and from_fields.
ParseLine ==
    /\ parseState = "parsing" /\ lineNo <= Len(raw)
    /\ LET line == raw[lineNo]
           striped == StripText(line)
       IN  IF striped = <<>>
           THEN /\ lineNo' = lineNo + 1
                /\ UNCHANGED <<headers, parseState, errLine>>
           ELSE IF LineError(striped) # "none"
           THEN /\ parseState' = "raised"
                /\ errLine' = line
                /\ UNCHANGED <<lineNo, headers>>
           ELSE /\ headers' = SetHeader(headers,
                                        StripText(BeforeColon(striped)),
                                        StripText(AfterColon(striped)))
                /\ lineNo' = lineNo + 1
                /\ UNCHANGED <<parseState, errLine>>
    /\ UNCHANGED <<runVars, latencies, recorded, cfgVars, guiVars, raw,
                   parsed, fieldsConfig>>

\* line 175 and lines 126-136: the mapping is returned and from_fields
\* builds the RunConfig with it
ParseReturn ==
    /\ parseState = "parsing" /\ lineNo > Len(raw)
    /\ parsed' = <<headers>>
    /\ fieldsConfig' = <<[headers |-> headers]>>
    /\ parseState' = "returned"
    /\ UNCHANGED <<runVars, latencies, recorded, cfgVars, guiVars, raw,
                   lineNo, headers, errLine>>

NextHdr ==
    \/ ParseLine
    \/ ParseReturn

SpecHdr == InitHdr /\ [][NextHdr]_vars

\* ------------------------------------------------------------ the GUI
\* the configurations collect_config can return
Configs == {"a", "b"}

InitGui ==
    /\ IdleRun
    /\ latencies = EmptyStats
    /\ recorded = <<>>
    /\ path = "none" /\ input = NoInput /\ cfgState = "none" /\ config = NoConfig
    /\ IdleHdr
    /\ IdleGui

\* lines 629-639
ResetIdle(g) ==
    IF g.last_summary # NoRunSummary
    THEN [g EXCEPT !.btn_start = "normal", !.btn_stop = "disabled",
                   !.btn_show_summary = "normal", !.btn_export_log = "normal",
                   !.lbl_status = "completed"]
    ELSE [g EXCEPT !.btn_start = "normal", !.btn_stop = "disabled",
                   !.btn_show_summary = "disabled",
                   !.btn_export_log = "disabled",
                   !.lbl_status = "idle"]

\* lines 764-834: the summary window shows the pair and offers its copy and
\* its JSON export
ShowSummary(g, su) == [config |-> g.current_config, summary |-> su]

\* an on_start that leaves the start button enabled
OnStartRunKeepsStart ==
    /\ gui.btn_start = "normal"
    /\ Len(workers) < MaxRuns
    /\ \E c \in Configs :
        /\ gui' = [gui EXCEPT !.current_config = c,
                              !.btn_stop = "normal",
                              !.btn_show_summary = "disabled",
                              !.btn_export_log = "disabled",
                              !.lbl_status = "running",
                              !.stop_flag = FALSE,
                              !.last_summary = NoRunSummary]
        /\ workers' = Append(workers, [st |-> "running", config |-> c,
                                       raised |-> FALSE])
    /\ summary_queue' = <<>>
    /\ UNCHANGED <<runVars, latencies, recorded, cfgVars, hdrVars,
                   after_queue, shown, reported>>

\* an on_start that leaves the summary queue as it is
OnStartRunKeepsQueue ==
    /\ gui.btn_start = "normal"
    /\ Len(workers) < MaxRuns
    /\ \E c \in Configs :
        /\ gui' = [gui EXCEPT !.current_config = c,
                              !.btn_start = "disabled",
                              !.btn_stop = "normal",
                              !.btn_show_summary = "disabled",
                              !.btn_export_log = "disabled",
                              !.lbl_status = "running",
                              !.stop_flag = FALSE,
                              !.last_summary = NoRunSummary]
        /\ workers' = Append(workers, [st |-> "running", config |-> c,
                                       raised |-> FALSE])
    /\ UNCHANGED <<runVars, latencies, recorded, cfgVars, hdrVars,
                   summary_queue, after_queue, shown, reported>>

\* lines 568-619: the start button is pressed and collect_config returns a
\* configuration (with None, on_start returns at line 571); the worker
\* thread of the run is started
OnStartRun ==
    /\ gui.btn_start = "normal"
    /\ Len(workers) < MaxRuns
    /\ \E c \in Configs :
        /\ gui' = [gui EXCEPT !.current_config = c,
                              !.btn_start = "disabled",
                              !.btn_stop = "normal",
                              !.btn_show_summary = "disabled",
                              !.btn_export_log = "disabled",
                              !.lbl_status = "running",
                              !.stop_flag = FALSE,
                              !.last_summary = NoRunSummary]
        /\ workers' = Append(workers, [st |-> "running", config |-> c,
                                       raised |-> FALSE])
    /\ summary_queue' = <<>>
    /\ UNCHANGED <<runVars, latencies, recorded, cfgVars, hdrVars,
                   after_queue, shown, reported>>

\* lines 598-612: run_probe returns and the worker queues its RunSummary
WorkerPut(n) ==
    /\ workers[n].st = "running"
    /\ workers' = [workers EXCEPT ![n].st = "finally"]
    /\ summary_queue' = Append(summary_queue,
                               [run |-> n, config |-> workers[n].config])
    /\ UNCHANGED <<runVars, latencies, recorded, cfgVars, hdrVars, gui,
                   after_queue, shown, reported>>

\* a worker that queues a summary of the failed run as well
WorkerExceptPartial(n) ==
    /\ workers[n].st = "running"
    /\ workers' = [workers EXCEPT ![n].st = "finally", ![n].raised = TRUE]
    /\ after_queue' = Append(after_queue, [cb |-> "showerror", run |-> n])
    /\ summary_queue' = Append(summary_queue,
                               [run |-> n, config |-> workers[n].config])
    /\ UNCHANGED <<runVars, latencies, recorded, cfgVars, hdrVars, gui,
                   shown, reported>>

\* lines 613-614: asyncio.run(run_probe(...)) raises and the worker
\* schedules the error box
WorkerExcept(n) ==
    /\ workers[n].st = "running"
    /\ workers' = [workers EXCEPT ![n].st = "finally", ![n].raised = TRUE]
    /\ after_queue' = Append(after_queue, [cb |-> "showerror", run |-> n])
    /\ UNCHANGED <<runVars, latencies, recorded, cfgVars, hdrVars, gui,
                   summary_queue, shown, reported>>

\* lines 615-616: the worker schedules reset_idle and ends
WorkerFinally(n) ==
    /\ workers[n].st = "finally"
    /\ workers' = [workers EXCEPT ![n].st = "ended"]
    /\ after_queue' = Append(after_queue, [cb |-> "reset_idle", run |-> n])
    /\ UNCHANGED <<runVars, latencies, recorded, cfgVars, hdrVars, gui,
                   summary_queue, shown, reported>>

\* Tk's main loop runs the callback scheduled first: the error box of line
\* 614 or reset_idle
RunCallback ==
    /\ after_queue # <<>>
    /\ after_queue' = Tail(after_queue)
    /\ IF Head(after_queue).cb = "showerror"
       THEN /\ reported' = reported \cup {Head(after_queue).run}
            /\ UNCHANGED gui
       ELSE /\ gui' = ResetIdle(gui)
            /\ UNCHANGED reported
    /\ UNCHANGED <<runVars, latencies, recorded, cfgVars, hdrVars,
                   summary_queue, workers, shown>>

\* lines 690-699: _drain_queue finds summaries queued; each becomes
\* last_summary and is shown with the current configuration
DrainQueue ==
    /\ summary_queue # <<>>
    /\ gui' = [gui EXCEPT !.last_summary = summary_queue[Len(summary_queue)],
                          !.btn_show_summary = "normal",
                          !.btn_export_log = "normal"]
    /\ shown' = IF gui.current_config # "none"
                THEN shown \cup {ShowSummary(gui, summary_queue[i]) :
                                     i \in 1 .. Len(summary_queue)}
                ELSE shown
    /\ summary_queue' = <<>>
    /\ UNCHANGED <<runVars, latencies, recorded, cfgVars, hdrVars, workers,
                   after_queue, reported>>

\* lines 621-623: the stop button is pressed
OnStop ==
    /\ gui.btn_stop = "normal"
    /\ gui' = [gui EXCEPT !.stop_flag = TRUE, !.lbl_status = "stop requested"]
    /\ UNCHANGED <<runVars, latencies, recorded, cfgVars, hdrVars,
                   summary_queue, workers, after_queue, shown, reported>>

\* lines 625-627: the summary button is pressed
OnShowSummary ==
    /\ gui.btn_show_summary = "normal"
    /\ shown' = IF gui.last_summary # NoRunSummary
                   /\ gui.current_config # "none"
                THEN shown \cup {ShowSummary(gui, gui.last_summary)}
                ELSE shown
    /\ UNCHANGED <<runVars, latencies, recorded, cfgVars, hdrVars, gui,
                   summary_queue, workers, after_queue, reported>>

NextGui ==
    \/ OnStartRun
    \/ \E n \in 1 .. Len(workers) : WorkerPut(n)
    \/ \E n \in 1 .. Len(workers) : WorkerExcept(n)
    \/ \E n \in 1 .. Len(workers) : WorkerFinally(n)
    \/ RunCallback
    \/ DrainQueue
    \/ OnStop
    \/ OnShowSummary

SpecGui == InitGui /\ [][NextGui]_vars

\* ------------------------------------------------- RunSummary.to_dict
\* n / d rounded to the nearest integer, ties to even
RoundDiv(n, d) ==
    LET q == n \div d
        r == n % d
    IN  IF 2 * r < d THEN q
        ELSE IF 2 * r > d THEN q + 1
        ELSE IF q % 2 = 0 THEN q ELSE q + 1

\* round(n / d, 3), as a count of thousandths
Round3(n, d) == RoundDiv(n * 1000, d)

\* Python's "x or 0.0" on an Optional[float]
OrZero(x) == IF x = None THEN 0 ELSE x

Digits == <<"0", "1", "2", "3", "4", "5", "6", "7", "8", "9">>

\* str(n) of a natural number
RECURSIVE StrNat(_)
StrNat(n) ==
    IF n < 10 THEN Digits[n + 1]
    ELSE StrNat(n \div 10) \o Digits[(n % 10) + 1]

\* a serialisation that writes every failure (fault, 4xx, 5xx) as "ERR"
StrFailuresAsErr(k) == IF k = ERR \/ k >= 400 THEN "ERR" ELSE StrNat(k)

\* str(k) of a tally key: "ERR" or a status code
Str(k) == IF k = ERR THEN "ERR" ELSE StrNat(k)

\* line 86: {str(k): v for k, v in status_counts.items()}; of two keys with
\* one text, one overwrites the other
ToDictCounts(c) ==
    [t \in {Str(k) : k \in DOMAIN c} |->
        c[CHOOSE k \in DOMAIN c : Str(k) = t]]

\* lines 89-97: the latency block (latencies are whole milliseconds)
ToDictLatency(l) ==
    IF l.count # 0
    THEN [count |-> l.count,
          average_ms |-> Round3(OrZero(Mean(l)), 1),
          min_ms |-> Round3(OrZero(l.min_ms), 1),
          max_ms |-> Round3(OrZero(l.max_ms), 1)]
    ELSE [count |-> 0]

\* lines 82-98, without started_at (the model has no calendar); elapsed_s is
\* kept in ticks by the run
ToDict(su) ==
    [total_sent |-> su.total_sent,
     elapsed_s |-> Round3(su.elapsed_s, TicksPerSec),
     status_counts |-> ToDictCounts(su.status_counts),
     latency |-> ToDictLatency(su.latencies)]

\* ============================================================ claims
ReqLines == {i \in 1 .. Len(log_queue) : log_queue[i].kind = "REQ"}

WellFormed(res) ==
    /\ res[2] # None
    /\ \/ res[1] \in Statuses /\ res[3] = NoneErr
       \/ res[1] = None /\ res[3] # NoneErr

\* C1: in every state of a run, and in the RunSummary it returns, the status
\* counts add up to the number of requests sent, which is also the number of
\* latency samples.
C1_TallyEqualsSentEqualsCount ==
    /\ CounterTotal(status_counts) = sent
    /\ latencies.count = sent
    /\ pc = "done" =>
        /\ summary.total_sent = sent
        /\ CounterTotal(summary.status_counts) = summary.total_sent
        /\ summary.latencies.count = summary.total_sent

C1_Witness ==
    /\ pc = "done"
    /\ summary.total_sent = 2
    /\ Cardinality(DOMAIN summary.status_counts) = 1

\* C2 as stated: after a cancellation requested while a wave was in flight,
\* every request launched has been recorded, so total_sent equals the number
\* of requests launched.
C2_AllLaunchedRecorded ==
    (pc = "done" /\ stopInWave) => sent = launched

\* C2 as amended: after a cancellation requested while a wave was in flight,
\* no request is left in flight at the end of the run; each request launched
\* was either recorded (counted, tallied and logged) or ended cancelled and
\* was skipped by the driver.
C2_AllLaunchedDrained ==
    (pc = "done" /\ stopInWave) =>
        /\ DOMAIN tasks = {}
        /\ pending = {} /\ done = {}
        /\ sent + nCancelled = launched
        /\ Cardinality(ReqLines) = sent
        /\ CounterTotal(status_counts) = sent

C2_Witness ==
    /\ pc = "done" /\ stopInWave
    /\ nCancelled = 1 /\ sent = 1

\* C3: once the stop flag was set during a wave or its pacing sleep, or once
\* the driver has read the flag as set, no further request task is created.
C3_NoLaunchAfterStop ==
    [][(stopInWave \/ observed) => launched' = launched]_vars

C3_Witness ==
    /\ pc = "done" /\ stopInWave
    /\ duration_s = 2 /\ waves = 1 /\ now < end_time

\* C4 as stated: a run that was not cancelled and whose waves each completed
\* within one second has launched exactly duration_s waves.
C4_ExactlyDWaves ==
    (pc = "done" /\ ~stop_flag /\ ~overrun) => waves = duration_s

\* C4 as amended: a run that was not cancelled, whose waves each completed
\* within one second and whose loop checks each came less than one second
\* late (the k-th check before start + k seconds) has launched exactly
\* duration_s waves.
C4_ExactlyDWavesOnTime ==
    (pc = "done" /\ ~stop_flag /\ ~overrun /\ onTime) => waves = duration_s

C4_Witness ==
    /\ pc = "done" /\ ~stop_flag /\ ~overrun /\ onTime
    /\ duration_s = 2 /\ waves = 2

\* C5 as stated: in a run that was not cancelled and whose waves each
\* completed within one second, total_sent is rps * duration_s and the tally
\* counts each transport result under its own key.
C5_TotalsOfFullRun ==
    (pc = "done" /\ ~stop_flag /\ ~overrun) =>
        /\ sent = rps * duration_s
        /\ status_counts = returned

\* C5 as amended: the same, for runs whose loop checks each came less than
\* one second late.
C5_TotalsOfFullRunOnTime ==
    (pc = "done" /\ ~stop_flag /\ ~overrun /\ onTime) =>
        /\ sent = rps * duration_s
        /\ status_counts = returned

C5_Witness ==
    /\ pc = "done" /\ ~stop_flag /\ ~overrun /\ onTime
    /\ rps = 2 /\ sent = 2
    /\ CounterGet(status_counts, 429) = 1
    /\ CounterGet(status_counts, ERR) = 1

\* C6 as stated: every invocation of fetch ends with a returned outcome, on
\* cancellation too; no task ends cancelled or with an exception.
C6_AlwaysAnOutcome ==
    \A i \in DOMAIN tasks :
        /\ tasks[i].st \in {"running", "done"}
        /\ tasks[i].st = "done" => WellFormed(tasks[i].res)

\* C6 as amended: every invocation of fetch that ends without having been
\* cancelled returns an outcome (a status code without error, or the error
\* marker with the exception's text); none ends with an exception; a task
\* ends cancelled only after the driver requested its cancellation.
C6_OutcomeUnlessCancelled ==
    \A i \in DOMAIN tasks :
        /\ tasks[i].st \in {"running", "done", "cancelled"}
        /\ tasks[i].st = "done" => WellFormed(tasks[i].res)
        /\ tasks[i].st = "cancelled" => tasks[i].creq

C6_Witness ==
    /\ \E i \in DOMAIN tasks : tasks[i].st = "cancelled"
    /\ CounterGet(status_counts, ERR) = 1

\* C7: waves never overlap: the requests in flight all belong to the wave
\* launched last, and there are at most rps of them.
C7_WavesNeverOverlap ==
    /\ Cardinality(InFlight) <= rps
    /\ \A i \in InFlight : tasks[i].wave = waves
    /\ pc = "launch" => DOMAIN tasks = {}

C7_Witness ==
    /\ waves = 2 /\ InFlight # {}
    /\ sent = 1

\* C8: pacing without overrun compensation: each wave launches exactly rps
\* requests, a pacing sleep ends one second after the wave's start, the
\* driver of an uncancelled run is back at the loop head no sooner than one
\* second after the wave's start, and two consecutive launches are at least
\* one second apart.
C8_PacingNoCompensation ==
    /\ launched = rps * waves
    /\ pc = "sleeping" => wake = sec_start + TicksPerSec
    /\ (pc \in {"loop", "launch"} /\ waves > 0 /\ ~stop_flag) =>
           now >= sec_start + TicksPerSec
    /\ prevLaunch # None => lastLaunch - prevLaunch >= TicksPerSec

C8_Witness ==
    /\ prevLaunch # None /\ overrun
    /\ lastLaunch - prevLaunch = TicksPerSec + 1

\* C9: on every entry path, run_probe is invoked only with a configuration
\* whose URL is not empty and whose rps, duration and timeout are positive.
C9_InvalidConfigRejected ==
    cfgState = "invoked" =>
        ~GuiRejects(config.url, config.rps, config.duration_s, config.timeout_s)

RECURSIVE SeqMin(_)
SeqMin(s) ==
    IF Len(s) = 1 THEN s[1]
    ELSE LET m == SeqMin(Tail(s)) IN IF s[1] < m THEN s[1] ELSE m

RECURSIVE SeqMax(_)
SeqMax(s) ==
    IF Len(s) = 1 THEN s[1]
    ELSE LET m == SeqMax(Tail(s)) IN IF s[1] > m THEN s[1] ELSE m

RECURSIVE Pow(_, _)
Pow(b, k) == IF k <= 0 THEN 1 ELSE b * Pow(b, k - 1)

\* C10 as stated: after any non-empty sequence of add calls min_ms is the
\* smallest and max_ms the largest value recorded, and
\* min_ms <= mean() <= max_ms.
C10_MeanBetweenMinAndMax ==
    latencies.count > 0 =>
        /\ latencies.min_ms = SeqMin(recorded)
        /\ latencies.max_ms = SeqMax(recorded)
        /\ latencies.min_ms <= Mean(latencies)
        /\ Mean(latencies) <= latencies.max_ms

\* C10 as amended: after n > 0 add calls count is n, min_ms is the smallest
\* and max_ms the largest value recorded, and mean() lies between them up to
\* the rounding of the n float operations behind it (n - 1 additions and one
\* division, each with a relative error of at most u = 2^-MantBits):
\* min_ms * (1 - u)^n <= mean() <= max_ms * (1 + u)^n.
C10_MeanWithinRounding ==
    latencies.count > 0 =>
        LET n == latencies.count
            U == Pow2(MantBits)
        IN  /\ n = Len(recorded)
            /\ latencies.min_ms = SeqMin(recorded)
            /\ latencies.max_ms = SeqMax(recorded)
            /\ latencies.min_ms * Pow(U - 1, n) <= Mean(latencies) * Pow(U, n)
            /\ Mean(latencies) * Pow(U, n) <= latencies.max_ms * Pow(U + 1, n)

C10_Witness ==
    /\ latencies.count = 3
    /\ latencies.min_ms < latencies.max_ms
    /\ Mean(latencies) < latencies.min_ms

ReqRecords == SelectSeq(log_queue, LAMBDA l : l.kind = "REQ")

Numbered ==
    /\ Len(ReqRecords) = sent
    /\ \A k \in 1 .. Len(ReqRecords) : ReqRecords[k].seq = k

\* the requests that completed and are not yet numbered
Unnumbered == {i \in DOMAIN tasks : tasks[i].st = "done"}

\* C11 as stated: the per-request log records carry the sequence numbers
\* 1, 2, ..., sent in queue order, one record per counted request, and the
\* requests are numbered in the order in which they completed: the request
\* taken next is the one that completed first among those not yet numbered.
C11_SeqFollowsCompletion ==
    /\ Numbered
    /\ finished.rank <= 1

\* C11 as amended: the per-request log records carry the sequence numbers
\* 1, 2, ..., sent in queue order, one record per counted request, numbered
\* in the order in which the driver processes the completions.  A request
\* that completed is numbered within the asyncio.wait return that reports
\* it, before any request reported by a later return; the requests one
\* return reports are numbered in the iteration order of the set "done",
\* which need not be their order of completion.
C11_SeqFollowsProcessing ==
    /\ Numbered
    /\ pc = "awaiting" => Unnumbered \subseteq pending
    /\ pc = "process" => Unnumbered \subseteq done
    /\ pc \notin {"awaiting", "process"} => Unnumbered = {}
    /\ finished # NoFinished =>
           /\ pc = "process"
           /\ finished.id \notin DOMAIN tasks
           /\ finished.rank \in 1 .. (Cardinality(Unnumbered) + 1)

C11_Witness ==
    /\ pc = "process"
    /\ finished.rank = 2
    /\ \E g \in Unnumbered : g < finished.id
    /\ ReqRecords[Len(ReqRecords)].seq = 1

\* C12: the log stream of a finished run is a column header line, then one
\* line per completed request, then exactly one final line that reports the
\* total sent.
C12_HeaderLinesFinal ==
    pc = "done" =>
        /\ Len(log_queue) = sent + 2
        /\ log_queue[1].kind = "HDR"
        /\ \A k \in 2 .. (sent + 1) : log_queue[k].kind = "REQ"
        /\ log_queue[sent + 2].kind = "END"
        /\ log_queue[sent + 2].seq = sent

LoopLeft == stop_flag \/ now >= end_time

Accumulated ==
    [total_sent |-> sent, status_counts |-> status_counts,
     elapsed_s |-> log_queue[Len(log_queue)].lat, latencies |-> latencies]

\* C13: the RunSummary is produced once, by the step that returns from
\* run_probe: the wave loop has been left (duration elapsed or stop flag
\* set), no request is in flight, the final log record is the last record
\* of the queue, and the summary holds the accumulated counters; from then
\* on the summary and the counters keep their values.
C13_SummaryOnceAtReturn ==
    /\ [](pc = "done" => summary = Accumulated)
    /\ [][summary' # summary =>
            /\ summary = NoSummary
            /\ pc = "closing" /\ pc' = "done"
            /\ LoopLeft
            /\ DOMAIN tasks = {} /\ pending = {} /\ done = {}
            /\ log_queue # <<>> /\ log_queue[Len(log_queue)].kind = "END"
            /\ log_queue' = log_queue
            /\ summary' = Accumulated]_vars

C13_Witness ==
    /\ pc = "done"
    /\ summary.total_sent = 1 /\ summary.latencies.count = 1
    /\ nCancelled = 1
    /\ log_queue[Len(log_queue)].kind = "END"

FaultsPending ==
    {i \in DOMAIN tasks : tasks[i].st = "done" /\ tasks[i].res[1] = None}

FaultRecords == SelectSeq(log_queue, LAMBDA l : l.kind = "REQ" /\ l.status = ERR)

\* C14: transport faults do not change the control flow: every request
\* launched is in flight, recorded or skipped as cancelled (none is issued
\* again), each fault the transport returned is tallied and logged once, and
\* the wave loop is left only when the duration has elapsed or the stop flag
\* is set, whatever the requests returned.
C14_FaultsKeepTheRunGoing ==
    /\ sent + nCancelled + Cardinality(DOMAIN tasks) = launched
    /\ CounterGet(status_counts, ERR) + Cardinality(FaultsPending)
           = CounterGet(returned, ERR)
    /\ Len(FaultRecords) = CounterGet(status_counts, ERR)
    /\ pc \in {"final", "closing", "done"} => LoopLeft

C14_Witness ==
    /\ pc = "done" /\ ~stop_flag
    /\ waves = 2 /\ sent = 2
    /\ CounterGet(status_counts, ERR) = 2
    /\ Len(FaultRecords) = 2

LatencyFields == {"count", "average_ms", "min_ms", "max_ms"}

NoDataIffEmpty(l) ==
    /\ (l.count = 0) <=> (l.min_ms = None)
    /\ (l.count = 0) <=> (l.max_ms = None)
    /\ (l.count = 0) <=> (Mean(l) = None)
    /\ IF l.count = 0
       THEN ToDictLatency(l) = [count |-> 0]
       ELSE /\ DOMAIN ToDictLatency(l) = LatencyFields
            /\ ToDictLatency(l).count = l.count
            /\ ToDictLatency(l).min_ms = 1000 * l.min_ms
            /\ ToDictLatency(l).max_ms = 1000 * l.max_ms
            /\ ToDictLatency(l).average_ms = 1000 * Mean(l)

\* C18: LatencyStats keeps "no data" apart from zero: count is 0 exactly
\* when min_ms and max_ms are unset and mean() returns no value, also when
\* the latencies recorded are 0.0; the latency block of to_dict has the
\* single field count = 0 when count is 0 and the fields count, average_ms,
\* min_ms and max_ms when count is positive.
C18_NoDataDistinctFromZero ==
    /\ NoDataIffEmpty(latencies)
    /\ pc = "done" => NoDataIffEmpty(summary.latencies)

C18_Witness ==
    /\ pc = "done"
    /\ summary.latencies.count = 1
    /\ summary.latencies.min_ms = 0 /\ Mean(summary.latencies) = 0
    /\ ToDictLatency(summary.latencies).average_ms = 0

\* the tally key a textual key stands for
ParseKey(t) == CHOOSE k \in {ERR} \cup Statuses : Str(k) = t

ReadBack(d) ==
    [k \in {ParseKey(t) : t \in DOMAIN d.status_counts} |->
        d.status_counts[Str(k)]]

\* C19: to_dict loses nothing of total_sent and status_counts: the record
\* carries total_sent unchanged, distinct tally keys (status codes and the
\* error marker) have distinct texts, and reading the textual keys back
\* gives the tally of the run, whose counts add up to total_sent.
C19_ToDictKeepsTally ==
    pc = "done" =>
        LET d == ToDict(summary)
        IN  /\ d.total_sent = sent
            /\ \A j, k \in DOMAIN status_counts : j # k => Str(j) # Str(k)
            /\ Cardinality(DOMAIN d.status_counts)
                   = Cardinality(DOMAIN status_counts)
            /\ ReadBack(d) = status_counts
            /\ CounterTotal(ReadBack(d)) = d.total_sent

C19_Witness ==
    /\ pc = "done"
    /\ DOMAIN ToDict(summary).status_counts = {"ERR", "429"}
    /\ ToDict(summary).total_sent = 2

\* C20: provided every request resolves, every run leaves its wave loop and
\* returns a RunSummary, whether or not and whenever the stop flag is set.
C20_RunReturns == <>(pc = "done" /\ summary # NoSummary)

C20_Witness ==
    /\ pc = "done" /\ summary # NoSummary
    /\ stopInWave /\ nCancelled = rps
    /\ summary.total_sent = 0

\* what the claims say of a line, read off the line as given
Blank(l) == \A i \in 1 .. Len(l) : l[i] = " "

ColonAt(l) == {i \in 1 .. Len(l) : l[i] = ":"}

FirstColon(l) == CHOOSE i \in ColonAt(l) : \A j \in ColonAt(l) : i <= j

Trimmed(t) ==
    LET ns == {i \in 1 .. Len(t) : t[i] # " "}
    IN  IF ns = {} THEN <<>>
        ELSE SubSeq(t, CHOOSE i \in ns : \A j \in ns : i <= j,
                       CHOOSE i \in ns : \A j \in ns : i >= j)

NameIn(l) == Trimmed(SubSeq(l, 1, FirstColon(l) - 1))

ValueIn(l) == Trimmed(SubSeq(l, FirstColon(l) + 1, Len(l)))

Offending(l) == ~Blank(l) /\ (ColonAt(l) = {} \/ NameIn(l) = <<>>)

NonBlank == {i \in 1 .. Len(raw) : ~Blank(raw[i])}

LastOf(k) ==
    CHOOSE i \in NonBlank :
        /\ NameIn(raw[i]) = k
        /\ \A j \in NonBlank : NameIn(raw[j]) = k => j <= i

\* C16: for a text whose non-blank lines all hold a colon after a non-empty
\* name, parse_header_lines returns a mapping; its keys are the trimmed
\* names of the non-blank lines, as spelled; each key has the trimmed value
\* of the last line with that name, the value being all that follows the
\* first colon.
C16_MappingOfWellFormedText ==
    (parseState # "parsing" /\ \A i \in 1 .. Len(raw) : ~Offending(raw[i])) =>
        /\ parseState = "returned"
        /\ Len(parsed) = 1
        /\ DOMAIN parsed[1] = {NameIn(raw[i]) : i \in NonBlank}
        /\ \A k \in DOMAIN parsed[1] : parsed[1][k] = ValueIn(raw[LastOf(k)])

C16_Witness ==
    /\ parseState = "returned"
    /\ Len(raw) = 2 /\ NonBlank = {1, 2}
    /\ DOMAIN parsed[1] = {<<"a">>}
    /\ ValueIn(raw[1]) = <<"2">>
    /\ parsed[1][<<"a">>] = <<"1", ":", "2">>

FirstOffending ==
    CHOOSE i \in 1 .. Len(raw) :
        /\ Offending(raw[i])
        /\ \A j \in 1 .. Len(raw) : Offending(raw[j]) => i <= j

\* C17: parse_header_lines raises exactly when some non-blank line has no
\* colon or an empty name, wherever the line stands; the error names that
\* line (the first such line), no mapping is returned and from_fields
\* builds no RunConfig.
C17_MalformedLineRejected ==
    /\ parseState = "parsing" => parsed = <<>> /\ fieldsConfig = <<>>
    /\ parseState # "parsing" =>
           ((\E i \in 1 .. Len(raw) : Offending(raw[i]))
               <=> parseState = "raised")
    /\ parseState = "raised" =>
           /\ errLine = raw[FirstOffending]
           /\ parsed = <<>>
           /\ fieldsConfig = <<>>

C17_Witness ==
    /\ parseState = "raised"
    /\ Len(raw) = 2 /\ errLine = raw[2]
    /\ DOMAIN headers = {<<"A">>}
    /\ ColonAt(raw[2]) # {}
    /\ parsed = <<>> /\ fieldsConfig = <<>>

ErrorBoxPending(n) ==
    \E i \in 1 .. Len(after_queue) :
        after_queue[i] = [cb |-> "showerror", run |-> n]

Settled(n) ==
    /\ n = Len(workers)
    /\ workers[n].st = "ended"
    /\ after_queue = <<>>

Unrecorded(k) ==
    {i \in Unnumbered : StatusKey(tasks[i].res[1]) = k}

\* a step that changes a counter is the processing of one ended request
WrittenByDriverOnly ==
    (sent' # sent \/ status_counts' # status_counts \/ latencies' # latencies)
    => /\ pc = "process"
       /\ \E f \in done :
            /\ tasks[f].st = "done"
            /\ done' = done \ {f}
            /\ DOMAIN tasks' = DOMAIN tasks \ {f}
            /\ sent' = sent + 1
            /\ status_counts' =
                   CounterInc(status_counts, StatusKey(tasks[f].res[1]))
            /\ latencies' = LatAdd(latencies, tasks[f].res[2])

\* a step in which a task ends or is cancelled changes no counter
ExecutorsWriteNothing ==
    (\E i \in DOMAIN tasks \cap DOMAIN tasks' : tasks'[i] # tasks[i])
    => /\ pc \in {"poll", "awaiting", "sleeping"}
       /\ UNCHANGED <<sent, status_counts, latencies>>

\* C21: the sent counter, the status tally and the latency accumulator have
\* a single writer.  A step changes any of them only as the driver's
\* processing of one ended request: it takes one task with a result out of
\* "done" and adds that result once to all three.  A step in which a
\* request executor ends or is cancelled changes none of them.  So no
\* result is lost or counted twice, however the requests interleave: under
\* each key, what is tallied plus what waits to be processed is what the
\* executors returned.
C21_SingleWriter ==
    /\ [](\A k \in {ERR} \cup Statuses :
            CounterGet(status_counts, k) + Cardinality(Unrecorded(k))
                = CounterGet(returned, k))
    /\ [][WrittenByDriverOnly /\ ExecutorsWriteNothing]_vars

C21_Witness ==
    /\ pc = "process"
    /\ sent = 1 /\ latencies.count = 1
    /\ Cardinality(Unnumbered) = 1
    /\ CounterTotal(returned) = 2
    /\ CounterTotal(status_counts) = 1

\* sequence s is an initial part of sequence t
IsPrefix(s, t) == Len(s) <= Len(t) /\ SubSeq(t, 1, Len(s)) = s

\* C22: no step of a run lowers the sent counter, a status count or the
\* number of latency samples, and no step takes a record out of the log;
\* this holds for the steps that set the stop flag, cancel the pending
\* requests and drain the wave as for any other.
C22_NeverDecrease ==
    [][/\ sent' >= sent
       /\ latencies'.count >= latencies.count
       /\ \A k \in DOMAIN status_counts :
            /\ k \in DOMAIN status_counts'
            /\ status_counts'[k] >= status_counts[k]
       /\ IsPrefix(log_queue, log_queue')]_vars

C22_Witness ==
    /\ pc = "done" /\ stop_flag /\ stopInWave
    /\ rps = 1 /\ waves = 2
    /\ nCancelled = 1
    /\ summary.total_sent = 1 /\ summary.latencies.count = 1
    /\ CounterGet(summary.status_counts, 200) = 1

\* C23 as stated: every record of a request has a latency, and it carries
\* an error description exactly when its status is the error marker: none
\* with a status code (4xx/5xx included), always one with the marker.
C23_ErrorIffErrStatus ==
    \A k \in 1 .. Len(ReqRecords) :
        /\ ReqRecords[k].lat # None
        /\ (ReqRecords[k].status = ERR) <=> (ReqRecords[k].err # "")

\* C23 as amended: every outcome the driver takes from a task and every
\* record it writes has a latency.  The error of an outcome is None exactly
\* when its status is a status code (4xx/5xx included), and the record of
\* such an outcome has an empty error column.  With the error marker the
\* error is the text of the exception, str(exc), which is empty for an
\* exception without a message; the record's error column is then empty
\* too, as it is for a response.
C23_ErrorNoneIffStatusCode ==
    /\ \A i \in Unnumbered :
        /\ tasks[i].res[2] # None
        /\ tasks[i].res[1] \in Statuses \cup {None}
        /\ (tasks[i].res[3] = NoneErr) <=> (tasks[i].res[1] \in Statuses)
        /\ tasks[i].res[3] # NoneErr => tasks[i].res[3] \in ExcTexts
    /\ \A k \in 1 .. Len(ReqRecords) :
        /\ ReqRecords[k].lat # None
        /\ ReqRecords[k].status \in Statuses \cup {ERR}
        /\ ReqRecords[k].status \in Statuses => ReqRecords[k].err = ""
        /\ ReqRecords[k].status = ERR => ReqRecords[k].err \in ExcTexts

C23_Witness ==
    /\ Len(ReqRecords) = 2
    /\ ReqRecords[1].status = 429 /\ ReqRecords[1].err = ""
    /\ ReqRecords[2].status = ERR /\ ReqRecords[2].err = ""
    /\ ReqRecords[2].lat # None

\* the tasks a step takes out of the driver's hands
Taken == DOMAIN tasks \ DOMAIN tasks'

\* a task that ended cancelled is dropped and leaves no trace
CancelledAddNothing ==
    (\E f \in Taken : tasks[f].st = "cancelled") =>
        /\ nCancelled' = nCancelled + 1
        /\ UNCHANGED <<sent, status_counts, latencies, log_queue>>

\* a task that ended with a result is counted, whether or not the stop
\* flag is set by then
CompletedAreCounted ==
    (\E f \in Taken : tasks[f].st = "done") =>
        /\ sent' = sent + 1
        /\ UNCHANGED nCancelled

\* C24: at the end of every run total_sent plus the number of requests
\* whose task ended cancelled is rps times the number of waves launched,
\* and the tally, the latency samples and the request records of the log
\* number total_sent; a request that completed is counted although the
\* stop flag is set, and a request that ended cancelled adds nothing to
\* total_sent, the tally, the latency statistics or the log.
C24_SentPlusCancelledIsLaunched ==
    /\ [](pc = "done" =>
            /\ summary.total_sent + nCancelled = rps * waves
            /\ CounterTotal(summary.status_counts) = rps * waves - nCancelled
            /\ summary.latencies.count = rps * waves - nCancelled
            /\ Len(ReqRecords) = rps * waves - nCancelled)
    /\ [][CancelledAddNothing /\ CompletedAreCounted]_vars

C24_Witness ==
    /\ pc = "done" /\ stopInWave
    /\ rps = 2 /\ waves = 1
    /\ summary.total_sent = 1 /\ nCancelled = 1
    /\ Len(log_queue) = 2
    /\ CounterGet(summary.status_counts, ERR) = 0

\* C25: whatever the requests' latencies and whenever the stop flag is set,
\* a run of duration_s seconds launches at most duration_s waves and at
\* most rps * duration_s requests; a run whose wave loop is over without a
\* wave found the stop flag set at its first check, so a run not cancelled
\* by then launches at least one wave.
C25_AtMostDWaves ==
    /\ waves <= duration_s
    /\ launched <= rps * duration_s
    /\ Cardinality(DOMAIN tasks) + sent + nCancelled <= rps * duration_s
    /\ (pc \in {"final", "closing", "done"} /\ waves = 0) =>
           stop_flag /\ observed /\ ~stopInWave

C25_Witness ==
    /\ pc = "done" /\ ~stop_flag
    /\ overrun
    /\ duration_s = 2 /\ waves = 2
    /\ launched = rps * duration_s
    /\ lastLaunch > TicksPerSec

\* the first evaluation of the wave loop's condition is due and the stop
\* flag is set
StoppedAtFirstCheck == pc = "loop" /\ waves = 0 /\ stop_flag

\* C30: a run that finds the stop flag set at its first check leaves the
\* wave loop at once: it launches no wave and sends no request.  A run
\* that ends without a wave still writes its final record, the only record
\* of its log, and returns a summary with total_sent = 0 and an empty
\* tally, whose to_dict has the latency block {count: 0}.
C30_StoppedBeforeFirstWave ==
    /\ [][StoppedAtFirstCheck => pc' = "final" /\ launched' = 0]_vars
    /\ []((pc \in {"final", "closing", "done"} /\ waves = 0) =>
            /\ launched = 0 /\ sent = 0 /\ DOMAIN tasks = {}
            /\ ReqRecords = <<>>)
    /\ []((pc = "done" /\ waves = 0) =>
            /\ log_queue = <<FinalLine(0, summary.elapsed_s)>>
            /\ summary.total_sent = 0
            /\ summary.status_counts = EmptyCounter
            /\ summary.latencies = EmptyStats
            /\ DOMAIN ToDict(summary).status_counts = {}
            /\ ToDict(summary).total_sent = 0
            /\ ToDict(summary).latency = [count |-> 0])

C30_Witness ==
    /\ pc = "done" /\ waves = 0
    /\ stop_flag /\ observed
    /\ Len(log_queue) = 1 /\ log_queue[1].kind = "END"
    /\ ToDict(summary).latency = [count |-> 0]

\* what the claim lets an option contribute: the command line's value if
\* the option was given, the preset's value otherwise
GivenOrPreset(opt, presetValue) == IF opt = Absent THEN presetValue ELSE opt[1]

\* C26: in headless mode with a preset, the run's rps, duration and timeout
\* are the preset's values where the command line does not give the option
\* and the command line's values where it does.
C26_PresetUnlessGiven ==
    (path = "preset" /\ cfgState = "invoked") =>
        /\ config.rps = GivenOrPreset(input.argv.rps, input.preset.rps)
        /\ config.duration_s =
               GivenOrPreset(input.argv.duration, input.preset.duration)
        /\ config.timeout_s =
               GivenOrPreset(input.argv.timeout, input.preset.timeout)

\* the workers that have not finished
Active == {n \in 1 .. Len(workers) : workers[n].st # "ended"}

\* C27: at most one run is active in the GUI.  While a worker has not
\* finished it is the worker started last, the start button is disabled
\* and the stop button's flag is the one its run reads; a worker is started
\* only when none is active, and the stop flag is cleared only when none is
\* active.
C27_OneRunAtATime ==
    /\ [](/\ Cardinality(Active) <= 1
          /\ Active # {} =>
                /\ Active = {Len(workers)}
                /\ gui.btn_start = "disabled"
                /\ gui.current_config = workers[Len(workers)].config)
    /\ [][Len(workers') # Len(workers) =>
            /\ Active = {}
            /\ Len(workers') = Len(workers) + 1
            /\ gui.btn_start = "normal" /\ gui'.btn_start = "disabled"]_vars
    /\ [][(gui.stop_flag /\ ~gui'.stop_flag) => Active = {}]_vars

C27_Witness ==
    /\ Len(workers) = 2
    /\ workers[1].st = "ended" /\ workers[2].st = "running"
    /\ gui.btn_start = "disabled"
    /\ gui.stop_flag
    /\ after_queue = <<>>

\* C28: when the worker of a successful run has finished and both the
\* reset_idle it scheduled and a _drain_queue poll after its put have run,
\* the status label shows completion and the summary and export buttons
\* are enabled.
C28_CompletedAfterResetAndDrain ==
    (/\ Len(workers) >= 1
     /\ workers[Len(workers)].st = "ended"
     /\ ~workers[Len(workers)].raised
     /\ after_queue = <<>>
     /\ summary_queue = <<>>) =>
        /\ gui.lbl_status = "completed"
        /\ gui.btn_show_summary = "normal"
        /\ gui.btn_export_log = "normal"

\* C29: a summary on the summary queue, the summary kept as last_summary
\* and every summary shown come from the run that was started with
\* current_config: the queue holds summaries of the run started last only,
\* last_summary is of that run, and each pair shown joins a summary with
\* the configuration of its own run.
C29_SummaryOfCurrentRun ==
    /\ \A i \in 1 .. Len(summary_queue) :
        /\ summary_queue[i].run = Len(workers)
        /\ summary_queue[i].config = gui.current_config
    /\ gui.last_summary # NoRunSummary =>
        /\ gui.last_summary.run = Len(workers)
        /\ gui.last_summary.config = gui.current_config
    /\ \A e \in shown :
        /\ e.summary.run \in 1 .. Len(workers)
        /\ e.config = workers[e.summary.run].config
        /\ e.config = e.summary.config

C29_Witness ==
    /\ Len(workers) = 2
    /\ workers[1].config = "a" /\ workers[2].config = "b"
    /\ [config |-> "a", summary |-> [run |-> 1, config |-> "a"]] \in shown
    /\ [config |-> "b", summary |-> [run |-> 2, config |-> "b"]] \in shown

====
